---------------------------- MODULE Spec2Model ----------------------------
(***************************************************************************)
(* hedgehog: a linearizability checker (src/src/lib.rs), its bit vector    *)
(* with an incrementally maintained XOR hash (src/src/bitvec.rs) and the   *)
(* concurrent history generator (src/src/runner.rs), driven by the counter *)
(* harness (src/src/bin/test_counter.rs) and by the map harness            *)
(* (src/src/bin/test_flurry.rs).                                           *)
(*                                                                         *)
(* Representation choices:                                                 *)
(*  - a u64 block is the set of its set bit positions, a subset of 0..63   *)
(*    (TLC's integers are 32 bits wide); XOR is the symmetric difference,  *)
(*    `| (1 << k)` adds k, `& !(1 << k)` removes k, u64::MAX is 0..63;     *)
(*  - Vec<u64> is a sequence (block i/64 is inner[i \div 64 + 1]);         *)
(*  - Hist.events is a function on 0..len-1, so eids are the source's;     *)
(*  - Option<u32> is {} for None and {n} for Some(n);                      *)
(*  - usize::MAX (INVALID) is -1: like usize::MAX it is no index.          *)
(***************************************************************************)
EXTENDS Integers, Sequences, FiniteSets, TLC

VARIABLES
    bv,                \* BitVec under test (bitvec laws)
    events,            \* Hist.events: eid -> Node
    lifted,            \* history variable: eids lifted and not yet unlifted, in order
    snaps,             \* history variable: Hist.events as it was before each such lift
    lined,             \* Checker.lined
    calls,             \* Checker.calls
    cache,             \* Checker.cache
    eid,               \* check_linearizability: local eid
    s,                 \* check_linearizability: local s
    pc,                \* position of the main thread
    result,            \* what check_linearizability returned: "true", "false",
                       \* "panic" when the run aborted, "none" before
    thread_count,      \* Runner.thread_count
    events_per_thread, \* Runner.events_per_thread
    model,             \* the Model (and its System) the run is instantiated with
    start,             \* Runner::run: the start flag
    queue,             \* Runner.events (ArrayQueue), oldest first
    sys,               \* System.inner: the shared counter or the shared map
    tpc,               \* per worker: position in the loop body
    tleft,             \* per worker: iterations left
    top,               \* per worker: local op
    told,              \* per worker: local old (racy Incr)
    tres,              \* per worker: local res
    pending,           \* produce_history: local pending
    drained,           \* produce_history: events of the queue already drained
    hist0,             \* history variable: the Hist as Checker::new received it
    trace,             \* history variable: the commits and backtracks of the
                       \* running check_linearizability, in order
    run1               \* history variable: trace and result of an earlier
                       \* check_linearizability on the same Hist, if any

bvVars   == <<bv>>
histVars == <<events, lifted, snaps>>
chkVars  == <<lined, calls, cache, eid, s, result>>
runVars  == <<thread_count, events_per_thread, start, queue, sys,
              tpc, tleft, top, told, tres, pending, drained>>
obsVars  == <<hist0, trace, run1>>
vars     == <<bv, events, lifted, snaps, lined, calls, cache, eid, s, pc, result,
              model, thread_count, events_per_thread, start, queue, sys,
              tpc, tleft, top, told, tres, pending, drained, hist0, trace, run1>>

---------------------------------------------------------------------------
(* Bounds of the model *)

MaxBlocks  == 3   \* BitVec laws: vectors of up to this many blocks
MaxCalls   == 3   \* calls in a history handed to the Checker
MaxThreads == 2   \* Runner: thread_count is at most this
MaxRunCalls == 4  \* Runner: thread_count * events_per_thread is at most this

(* Program constants *)

BlockBits == 64
BEGIN     == 0
END       == 0
INVALID   == -1
NoCallId  == -2   \* the call_id produce_history never gives its Invoke events

---------------------------------------------------------------------------
(* u64 blocks *)

Zero64 == {}
U64Max == 0 .. (BlockBits - 1)
Xor(a, b) == (a \ b) \cup (b \ a)

RECURSIVE XorAll(_)
XorAll(blocks) ==
    IF blocks = <<>> THEN Zero64
    ELSE Xor(Head(blocks), XorAll(Tail(blocks)))

---------------------------------------------------------------------------
(* BitVec (src/src/bitvec.rs) *)

\* mutant: the block count is rounded down
BitVec_from_elem_RoundsDown(val, len) ==
    LET block == IF val THEN U64Max ELSE Zero64
        count == len \div BlockBits
        hash  == IF count % 2 = 0 THEN Zero64 ELSE block
    IN  [inner |-> [k \in 1..count |-> block], hash |-> hash]

BitVec_from_elem(val, len) ==
    LET block == IF val THEN U64Max ELSE Zero64
        count == (len + 63) \div BlockBits
        hash  == IF count % 2 = 0 THEN Zero64 ELSE block
    IN  [inner |-> [k \in 1..count |-> block], hash |-> hash]

BitVec_get(v, i) == (i % BlockBits) \in v.inner[(i \div BlockBits) + 1]

\* inner.get_mut(i / 64).unwrap() fails
BitVec_set_panics(v, i) == ((i \div BlockBits) + 1) \notin DOMAIN v.inner

\* mutant: the new block is not put into the hash
BitVec_set_DropsNew(v, i, val) ==
    LET k     == (i \div BlockBits) + 1
        old   == v.inner[k]
        block == IF val THEN old \cup {i % BlockBits} ELSE old \ {i % BlockBits}
    IN  [inner |-> [v.inner EXCEPT ![k] = block], hash |-> Xor(v.hash, old)]

\* mutant: the old block is not taken out of the hash
BitVec_set_KeepsOld(v, i, val) ==
    LET k     == (i \div BlockBits) + 1
        old   == v.inner[k]
        block == IF val THEN old \cup {i % BlockBits} ELSE old \ {i % BlockBits}
    IN  [inner |-> [v.inner EXCEPT ![k] = block], hash |-> Xor(v.hash, block)]

BitVec_set(v, i, val) ==
    LET k     == (i \div BlockBits) + 1
        old   == v.inner[k]
        h1    == Xor(v.hash, old)
        block == IF val THEN old \cup {i % BlockBits} ELSE old \ {i % BlockBits}
    IN  [inner |-> [v.inner EXCEPT ![k] = block], hash |-> Xor(h1, block)]

---------------------------------------------------------------------------
(* Option<T>: {} or {x} *)

None    == {}
Some(n) == {n}

(* CounterModel (src/src/bin/test_counter.rs): the state is inner *)

Incr == <<"Incr">>
Read == <<"Read">>

CounterModel_initial == 0

\* (s', value)
CounterModel_apply(st, op) ==
    IF op = Incr THEN <<st + 1, None>> ELSE <<st, Some(st)>>

(* FlurryModel (src/src/bin/test_flurry.rs): the state is inner, a map,  *)
(* kept as the set of its <<key, value>> entries                         *)

Get(key)      == <<"Get", key>>
Set(key, val) == <<"Set", key, val>>
Rm(key)       == <<"Rm", key>>

FlurryModel_initial == {}

Map_get(m, key)         == {e[2] : e \in {x \in m : x[1] = key}}
Map_remove(m, key)      == {x \in m : x[1] # key}
Map_insert(m, key, val) == Map_remove(m, key) \cup {<<key, val>>}

\* (s', value)
FlurryModel_apply(st, op) ==
    CASE op[1] = "Get" -> <<st, Map_get(st, op[2])>>
      [] op[1] = "Set" -> <<Map_insert(st, op[2], op[3]), None>>
      [] op[1] = "Rm"  -> <<Map_remove(st, op[2]), None>>

(* trait Model (src/src/lib.rs), instantiated as M *)

Models == {"counter", "flurry"}

Model_initial(M) ==
    IF M = "counter" THEN CounterModel_initial ELSE FlurryModel_initial

Model_apply(M, st, op) ==
    IF M = "counter" THEN CounterModel_apply(st, op) ELSE FlurryModel_apply(st, op)

---------------------------------------------------------------------------
(* Event, Node, Hist (src/src/lib.rs) *)

NoEvent == [kind |-> "None"]
Invoke(op, ret_event, call_id) ==
    [kind |-> "Invoke", op |-> op, ret_event |-> ret_event, call_id |-> call_id]
Ret(val) == [kind |-> "Ret", val |-> val]

Node(ev, next, prev) == [ev |-> ev, next |-> next, prev |-> prev]

HistLen(evs) == Cardinality(DOMAIN evs)          \* events.len()

Hist_with_capacity ==
    [e \in 0..1 |-> Node(NoEvent, END, BEGIN)]

\* the events after push_back(ev); the eid it returns is HistLen(evs)
Hist_push_back(evs, ev) ==
    LET news_pos == HistLen(evs)
        old_last == evs[END].prev
        e1 == [evs EXCEPT ![END].prev = news_pos]
        e2 == [e1 EXCEPT ![old_last].next = news_pos]
    IN  [e \in 0..news_pos |->
            IF e = news_pos THEN Node(ev, END, old_last) ELSE e2[e]]

IsEid(evs, e)    == e \in DOMAIN evs
IsInvoke(evs, e) == IsEid(evs, e) /\ evs[e].ev.kind = "Invoke"
IsRet(evs, e)    == IsEid(evs, e) /\ evs[e].ev.kind = "Ret"

\* get_mut_from_eid(inv) used to back-patch ret_event
Hist_set_ret_event(evs, inv, pos) ==
    [evs EXCEPT ![inv].ev.ret_event = pos]

\* mutant: the Returns on the way to the next live Invoke are passed over
Hist_next_eid_SkipRet(evs, e) ==
    LET after == {x \in DOMAIN evs : /\ x > e
                                      /\ evs[x].ev.kind = "Invoke"
                                      /\ evs[evs[x].prev].next = x}
    IN  IF after = {} THEN None
        ELSE Some(CHOOSE x \in after : \A y \in after : x <= y)

\* Option<usize>: {} or {eid}
Hist_next_eid(evs, e) ==
    LET next == evs[e].next
    IN  IF next # END THEN Some(next) ELSE None

Hist_first_eid(evs) == Hist_next_eid(evs, BEGIN)

Hist_len(evs) == HistLen(evs) - 2

\* mutant: the node taken out has its own links reset
Hist_lift_event_ResetsOwn(evs, e) ==
    LET prev == evs[e].prev
        next == evs[e].next
        e1 == [evs EXCEPT ![prev].next = next]
        e2 == [e1 EXCEPT ![next].prev = prev]
    IN  [e2 EXCEPT ![e].next = END, ![e].prev = BEGIN]

\* mutant: the successor's next is written instead of its prev
Hist_lift_event_NextNext(evs, e) ==
    LET prev == evs[e].prev
        next == evs[e].next
        e1 == [evs EXCEPT ![prev].next = next]
    IN  [e1 EXCEPT ![next].next = prev]

Hist_lift_event(evs, e) ==
    LET prev == evs[e].prev
        next == evs[e].next
        e1 == [evs EXCEPT ![prev].next = next]
    IN  [e1 EXCEPT ![next].prev = prev]

\* mutant: the Return node stays on the live list
Hist_lift_InvokeOnly(evs, e) == Hist_lift_event(evs, e)

Hist_lift(evs, e) ==
    LET eid_ret == evs[e].ev.ret_event
    IN  Hist_lift_event(Hist_lift_event(evs, e), eid_ret)

\* mutant: only the predecessor is pointed back at the node
Hist_unlift_event_OneSide(evs, e) ==
    LET prev == evs[e].prev
    IN  [evs EXCEPT ![prev].next = e]

Hist_unlift_event(evs, e) ==
    LET prev == evs[e].prev
        next == evs[e].next
        e1 == [evs EXCEPT ![prev].next = e]
    IN  [e1 EXCEPT ![next].prev = e]

Hist_unlift(evs, e) ==
    LET eid_ret == evs[e].ev.ret_event
    IN  Hist_unlift_event(Hist_unlift_event(evs, eid_ret), e)

Hist_get_call_id(evs, e) == evs[e].ev.call_id

\* lift / unlift reach an unreachable!() or an unwrap() of None
Hist_lift_panics(evs, e) ==
    \/ ~IsInvoke(evs, e)
    \/ ~IsEid(evs, evs[e].ev.ret_event)

\* the eids on the live list, in list order (Iter)
RECURSIVE LiveFrom(_, _, _)
LiveFrom(evs, e, fuel) ==
    IF fuel = 0 \/ evs[e].next = END THEN <<>>
    ELSE <<evs[e].next>> \o LiveFrom(evs, evs[e].next, fuel - 1)

Live(evs) == LiveFrom(evs, BEGIN, HistLen(evs))
LiveSet(evs) == LET l == Live(evs) IN {l[k] : k \in DOMAIN l}

---------------------------------------------------------------------------
(* Checker (src/src/lib.rs) *)

Checker_new_lined(evs) == BitVec_from_elem(FALSE, Hist_len(evs) \div 2)

\* Checker::apply reaches "invalid eid", "cannot get sentinel node" or unreachable!()
Checker_apply_panics(evs, e) ==
    \/ ~IsInvoke(evs, e)
    \/ ~IsRet(evs, evs[e].ev.ret_event)

\* mutant: the state the model moved to is not handed back
Checker_apply_KeepsState(M, evs, st, e) ==
    LET event == evs[e].ev
        r     == Model_apply(M, st, event.op)
        val   == evs[event.ret_event].ev.val
    IN  <<val = r[2], event.call_id, st>>

\* mutant: the recorded return value is not compared with the model's
Checker_apply_NoCompare(M, evs, st, e) ==
    LET event == evs[e].ev
        r     == Model_apply(M, st, event.op)
    IN  <<TRUE, event.call_id, r[1]>>

\* (lin, call_id, s2)
Checker_apply(M, evs, st, e) ==
    LET event == evs[e].ev
        r     == Model_apply(M, st, event.op)
        val   == evs[event.ret_event].ev.val
    IN  <<val = r[2], event.call_id, r[1]>>

\* HashSet::insert: the set afterwards; it returns true iff key was absent
Cache_insert(c, key) == c \cup {key}
\* mutant: every pair counts as new
Cache_unseen_Always(c, key) == TRUE
\* mutant: the seen-set is keyed on the bitmap alone
Cache_unseen_LinedOnly(c, key) == \A k \in c : k[1] # key[1]
Cache_unseen(c, key) == key \notin c

\* the Invoke arm of the loop body panics
InvokeArmPanics ==
    \/ Hist_next_eid(events, eid) = None
    \/ Checker_apply_panics(events, eid)
    \/ LET a == Checker_apply(model, events, s, eid)
       IN  /\ a[1]
           /\ \/ BitVec_set_panics(lined, a[2])
              \/ /\ Cache_unseen(cache, <<BitVec_set(lined, a[2], TRUE), a[3]>>)
                 /\ Hist_lift_panics(events, eid)

\* the Return arm of the loop body panics
ReturnArmPanics ==
    /\ calls # <<>>
    /\ LET eid2 == calls[Len(calls)][1]
       IN  \/ ~IsInvoke(events, eid2)
           \/ BitVec_set_panics(lined, Hist_get_call_id(events, eid2))
           \/ Hist_lift_panics(events, eid2)
           \/ Hist_next_eid(Hist_unlift(events, eid2), eid2) = None

IterationPanics ==
    \/ ~IsEid(events, eid)
    \/ events[eid].ev.kind = "None"
    \/ events[eid].ev.kind = "Invoke" /\ InvokeArmPanics
    \/ events[eid].ev.kind = "Ret" /\ ReturnArmPanics

Panic ==
    /\ pc' = "done"
    /\ result' = "panic"
    /\ UNCHANGED <<events, lined, calls, cache, eid, s, lifted, snaps, trace>>

\* mutant: the search starts at whichever live event comes up
CheckStart_AnyLive ==
    /\ pc = "check"
    /\ LET f == Hist_first_eid(events)
       IN  IF f = None
           THEN /\ pc' = "done"
                /\ result' = "true"
                /\ UNCHANGED <<eid, s>>
           ELSE /\ pc' = "loop"
                /\ eid' \in LiveSet(events)
                /\ s' = Model_initial(model)
                /\ UNCHANGED result
    /\ UNCHANGED <<bv, events, lifted, snaps, lined, calls, cache, model>>
    /\ UNCHANGED runVars
    /\ UNCHANGED obsVars

\* check_linearizability up to the loop (lib.rs 245-251)
CheckStart ==
    /\ pc = "check"
    /\ LET f == Hist_first_eid(events)
       IN  IF f = None
           THEN /\ pc' = "done"
                /\ result' = "true"
                /\ UNCHANGED <<eid, s>>
           ELSE /\ pc' = "loop"
                /\ eid' = CHOOSE e \in f : TRUE
                /\ s' = Model_initial(model)
                /\ UNCHANGED result
    /\ UNCHANGED <<bv, events, lifted, snaps, lined, calls, cache, model>>
    /\ UNCHANGED runVars
    /\ UNCHANGED obsVars

\* a commit of the call invoked at e, which made key the frontier
Commit(e, key) == <<"commit", e, key>>
\* a backtrack that withdrew the call invoked at e
Backtrack(e) == <<"backtrack", e>>

\* mutant: the state after the call is saved with it
InvokeArm_SavesNew ==
    LET next_eid == CHOOSE e \in Hist_next_eid(events, eid) : TRUE
        a        == Checker_apply(model, events, s, eid)
        lin      == a[1]
        call_id  == a[2]
        s2       == a[3]
        lined2   == BitVec_set(lined, call_id, TRUE)
        key      == <<lined2, s2>>
    IN  IF lin
        THEN /\ cache' = Cache_insert(cache, key)
             /\ IF Cache_unseen(cache, key)
                THEN /\ calls' = Append(calls, <<eid, s2>>)
                     /\ s' = s2
                     /\ lined' = BitVec_set(lined, call_id, TRUE)
                     /\ events' = Hist_lift(events, eid)
                     /\ lifted' = Append(lifted, eid)
                     /\ snaps' = Append(snaps, events)
                     /\ trace' = Append(trace, Commit(eid, key))
                     /\ LET f == Hist_first_eid(Hist_lift(events, eid))
                        IN  IF f # None
                            THEN /\ eid' = CHOOSE e \in f : TRUE
                                 /\ UNCHANGED <<pc, result>>
                            ELSE /\ pc' = "done"
                                 /\ result' = "true"
                                 /\ UNCHANGED eid
                ELSE /\ eid' = next_eid
                     /\ UNCHANGED <<events, lined, calls, s, pc, result>>
                     /\ UNCHANGED <<lifted, snaps, trace>>
        ELSE /\ eid' = next_eid
             /\ UNCHANGED <<events, lined, calls, cache, s, pc, result>>
             /\ UNCHANGED <<lifted, snaps, trace>>

\* lib.rs 257-281
InvokeArm ==
    LET next_eid == CHOOSE e \in Hist_next_eid(events, eid) : TRUE
        a        == Checker_apply(model, events, s, eid)
        lin      == a[1]
        call_id  == a[2]
        s2       == a[3]
        lined2   == BitVec_set(lined, call_id, TRUE)
        key      == <<lined2, s2>>
    IN  IF lin
        THEN /\ cache' = Cache_insert(cache, key)
             /\ IF Cache_unseen(cache, key)
                THEN /\ calls' = Append(calls, <<eid, s>>)
                     /\ s' = s2
                     /\ lined' = BitVec_set(lined, call_id, TRUE)
                     /\ events' = Hist_lift(events, eid)
                     /\ lifted' = Append(lifted, eid)
                     /\ snaps' = Append(snaps, events)
                     /\ trace' = Append(trace, Commit(eid, key))
                     /\ LET f == Hist_first_eid(Hist_lift(events, eid))
                        IN  IF f # None
                            THEN /\ eid' = CHOOSE e \in f : TRUE
                                 /\ UNCHANGED <<pc, result>>
                            ELSE /\ pc' = "done"
                                 /\ result' = "true"
                                 /\ UNCHANGED eid
                ELSE /\ eid' = next_eid
                     /\ UNCHANGED <<events, lined, calls, s, pc, result>>
                     /\ UNCHANGED <<lifted, snaps, trace>>
        ELSE /\ eid' = next_eid
             /\ UNCHANGED <<events, lined, calls, cache, s, pc, result>>
             /\ UNCHANGED <<lifted, snaps, trace>>

\* the record of the lifts still in force once e is unlifted: e's latest
\* entry is taken out, wherever it stands
WithoutLast(q, e) ==
    IF \E k \in DOMAIN q : q[k] = e
    THEN LET k == CHOOSE i \in DOMAIN q : q[i] = e /\ \A j \in DOMAIN q : q[j] = e => j <= i
         IN  SubSeq(q, 1, k - 1) \o SubSeq(q, k + 1, Len(q))
    ELSE q

\* mutant: the top of the stack is read but not popped
ReturnArm_NoPop ==
    IF calls = <<>>
    THEN /\ pc' = "done"
         /\ result' = "false"
         /\ UNCHANGED <<events, lined, calls, cache, eid, s>>
         /\ UNCHANGED <<lifted, snaps, trace>>
    ELSE LET eid2    == calls[Len(calls)][1]
             s2      == calls[Len(calls)][2]
             call_id == Hist_get_call_id(events, eid2)
             evs2    == Hist_unlift(events, eid2)
         IN  /\ lined' = BitVec_set(lined, call_id, FALSE)
             /\ events' = evs2
             /\ eid' = CHOOSE e \in Hist_next_eid(evs2, eid2) : TRUE
             /\ s' = s2
             /\ lifted' = WithoutLast(lifted, eid2)
             /\ snaps' = SubSeq(snaps, 1, Len(snaps) - 1)
             /\ UNCHANGED <<calls, cache, pc, result, trace>>

\* mutant: the state saved with the withdrawn call is not restored
ReturnArm_KeepsState ==
    IF calls = <<>>
    THEN /\ pc' = "done"
         /\ result' = "false"
         /\ UNCHANGED <<events, lined, calls, cache, eid, s>>
         /\ UNCHANGED <<lifted, snaps, trace>>
    ELSE LET eid2    == calls[Len(calls)][1]
             call_id == Hist_get_call_id(events, eid2)
             evs2    == Hist_unlift(events, eid2)
         IN  /\ calls' = SubSeq(calls, 1, Len(calls) - 1)
             /\ lined' = BitVec_set(lined, call_id, FALSE)
             /\ events' = evs2
             /\ eid' = CHOOSE e \in Hist_next_eid(evs2, eid2) : TRUE
             /\ lifted' = WithoutLast(lifted, eid2)
             /\ snaps' = SubSeq(snaps, 1, Len(snaps) - 1)
             /\ trace' = Append(trace, Backtrack(eid2))
             /\ UNCHANGED <<cache, pc, result, s>>

\* mutant: the bit of the call taken back stays set
ReturnArm_KeepsBit ==
    IF calls = <<>>
    THEN /\ pc' = "done"
         /\ result' = "false"
         /\ UNCHANGED <<events, lined, calls, cache, eid, s>>
         /\ UNCHANGED <<lifted, snaps, trace>>
    ELSE LET eid2    == calls[Len(calls)][1]
             s2      == calls[Len(calls)][2]
             call_id == Hist_get_call_id(events, eid2)
             evs2    == Hist_unlift(events, eid2)
         IN  /\ calls' = SubSeq(calls, 1, Len(calls) - 1)
             /\ lined' = lined
             /\ events' = evs2
             /\ eid' = CHOOSE e \in Hist_next_eid(evs2, eid2) : TRUE
             /\ s' = s2
             /\ lifted' = WithoutLast(lifted, eid2)
             /\ snaps' = SubSeq(snaps, 1, Len(snaps) - 1)
             /\ trace' = Append(trace, Backtrack(eid2))
             /\ UNCHANGED <<cache, pc, result>>

\* lib.rs 283-295
ReturnArm ==
    IF calls = <<>>
    THEN /\ pc' = "done"
         /\ result' = "false"
         /\ UNCHANGED <<events, lined, calls, cache, eid, s>>
         /\ UNCHANGED <<lifted, snaps, trace>>
    ELSE LET eid2    == calls[Len(calls)][1]
             s2      == calls[Len(calls)][2]
             call_id == Hist_get_call_id(events, eid2)
             evs2    == Hist_unlift(events, eid2)
         IN  /\ calls' = SubSeq(calls, 1, Len(calls) - 1)
             /\ lined' = BitVec_set(lined, call_id, FALSE)
             /\ events' = evs2
             /\ eid' = CHOOSE e \in Hist_next_eid(evs2, eid2) : TRUE
             /\ s' = s2
             /\ lifted' = WithoutLast(lifted, eid2)
             /\ snaps' = SubSeq(snaps, 1, Len(snaps) - 1)
             /\ trace' = Append(trace, Backtrack(eid2))
             /\ UNCHANGED <<cache, pc, result>>

\* one iteration of the loop of check_linearizability (lib.rs 254-297)
LoopIteration ==
    /\ pc = "loop"
    /\ IF IterationPanics THEN Panic
       ELSE IF events[eid].ev.kind = "Invoke" THEN InvokeArm
       ELSE ReturnArm
    /\ UNCHANGED <<bv, model, hist0, run1>>
    /\ UNCHANGED runVars

---------------------------------------------------------------------------
(* Well-formed histories: what push_back and the back-patching of ret_event *)
(* build from a sequence of 2C events in which every call is invoked once   *)
(* and returns once, later; call ids follow the order of the invokes.       *)

\* the sequences over 0..C-1 in which every call occurs twice (its Invoke,
\* then its Return) and the calls are first met in the order 0, 1, ...;
\* k calls are invoked so far, those in open have not returned
RECURSIVE ShapesFrom(_, _, _, _)
ShapesFrom(C, k, open, h) ==
    IF Len(h) = 2 * C THEN {h}
    ELSE (IF k < C THEN ShapesFrom(C, k + 1, open \cup {k}, Append(h, k)) ELSE {})
         \cup UNION {ShapesFrom(C, k, open \ {c}, Append(h, c)) : c \in open}

Shapes(C) == ShapesFrom(C, 0, {}, <<>>)

\* the calls of a history: <<op, recorded return value>>
Kinds(M) ==
    IF M = "counter"
    THEN {<<Incr, None>>, <<Read, Some(0)>>, <<Read, Some(1)>>}
    ELSE {<<Set(0, 1), None>>, <<Rm(0), None>>, <<Get(0), None>>, <<Get(0), Some(1)>>}

FirstPos(h, c) == CHOOSE k \in DOMAIN h : h[k] = c /\ \A j \in 1..(k - 1) : h[j] # c

RECURSIVE BuildHist(_, _, _, _)
BuildHist(h, kind, k, evs) ==
    IF k > Len(h) THEN evs
    ELSE LET c == h[k]
         IN  IF FirstPos(h, c) = k
             THEN BuildHist(h, kind, k + 1,
                      Hist_push_back(evs, Invoke(kind[c][1], INVALID, c)))
             ELSE BuildHist(h, kind, k + 1,
                      Hist_set_ret_event(Hist_push_back(evs, Ret(kind[c][2])),
                                         FirstPos(h, c) + 1, HistLen(evs)))

\* evs is a well-formed history of at most MaxCalls calls of model M
WellFormedHist(M, evs) ==
    \E C \in 0..MaxCalls : \E h \in Shapes(C) : \E kind \in [0..(C - 1) -> Kinds(M)] :
        evs = BuildHist(h, kind, 1, Hist_with_capacity)

---------------------------------------------------------------------------
(* Values of the variables a specification does not use *)

IdleBv  == bv = BitVec_from_elem(FALSE, 0)
IdleRun ==
    /\ thread_count = 0
    /\ events_per_thread = 0
    /\ start = FALSE
    /\ queue = <<>>
    /\ sys = 0
    /\ tpc = <<>>
    /\ tleft = <<>>
    /\ top = <<>>
    /\ told = <<>>
    /\ tres = <<>>
    /\ pending = <<>>
    /\ drained = 0

\* no check_linearizability has run on the Hist yet
NoRun == [trace |-> <<>>, result |-> "none"]
IdleObs == hist0 = Hist_with_capacity /\ trace = <<>> /\ run1 = NoRun

---------------------------------------------------------------------------
(* Spec: Checker::new(hist).check_linearizability() on every well-formed   *)
(* history within the bounds                                               *)

Init ==
    /\ model \in Models
    /\ WellFormedHist(model, events)
    /\ lined = Checker_new_lined(events)
    /\ calls = <<>>
    /\ cache = {}
    /\ eid = INVALID
    /\ s = Model_initial(model)
    /\ pc = "check"
    /\ result = "none"
    /\ lifted = <<>>
    /\ snaps = <<>>
    /\ hist0 = events
    /\ trace = <<>>
    /\ run1 = NoRun
    /\ IdleBv
    /\ IdleRun

Next ==
    \/ CheckStart
    \/ LoopIteration

Spec == Init /\ [][Next]_vars

\* the loop is sequential code: it keeps running until it returns
FairSpec == Spec /\ WF_vars(Next)

---------------------------------------------------------------------------
(* SpecTwice: Checker::new(hist).check_linearizability(), and then once    *)
(* more on a Hist identical to the one the first Checker received          *)

\* a second Checker::new on an identical Hist, after the first run returned
CheckAgain ==
    /\ pc = "done"
    /\ result \in {"true", "false"}
    /\ run1 = NoRun
    /\ run1' = [trace |-> trace, result |-> result]
    /\ events' = hist0
    /\ lined' = Checker_new_lined(hist0)
    /\ calls' = <<>>
    /\ cache' = {}
    /\ eid' = INVALID
    /\ s' = Model_initial(model)
    /\ pc' = "check"
    /\ result' = "none"
    /\ lifted' = <<>>
    /\ snaps' = <<>>
    /\ trace' = <<>>
    /\ UNCHANGED <<bv, model, hist0>>
    /\ UNCHANGED runVars

NextTwice ==
    \/ CheckStart
    \/ LoopIteration
    \/ CheckAgain

SpecTwice == Init /\ [][NextTwice]_vars


---------------------------------------------------------------------------
(* Linearizability of a history, by definition: some total order of its    *)
(* calls respects the real-time order and replays on the model to exactly  *)
(* the recorded return values. Nodes never move in the arena and push_back *)
(* appends, so the order of the eids is the order of the history.          *)

InvokeEids(evs) == {e \in DOMAIN evs : evs[e].ev.kind = "Invoke"}

Orders(evs) ==
    LET I == InvokeEids(evs)
        n == Cardinality(I)
    IN  {p \in [1..n -> I] : \A i, j \in 1..n : i # j => p[i] # p[j]}

\* a call whose Return precedes another call's Invoke comes first
RespectsRealTime(evs, p) ==
    \A i, j \in DOMAIN p : i < j => ~(evs[p[j]].ev.ret_event < p[i])

RECURSIVE Replays(_, _, _, _, _)
Replays(M, evs, p, k, st) ==
    IF k > Len(p) THEN TRUE
    ELSE LET r == Model_apply(M, st, evs[p[k]].ev.op)
         IN  /\ r[2] = evs[evs[p[k]].ev.ret_event].ev.val
             /\ Replays(M, evs, p, k + 1, r[1])

IsLinearization(M, evs, p) ==
    RespectsRealTime(evs, p) /\ Replays(M, evs, p, 1, Model_initial(M))

Linearizable(M, evs) == \E p \in Orders(evs) : IsLinearization(M, evs, p)

---------------------------------------------------------------------------
\* C1 (soundness): whenever check_linearizability has returned true, some
\* total order of the calls respects the real-time order of the history and
\* replays on the model from M::initial() to every recorded return value.
Soundness ==
    (pc = "done" /\ result = "true") => Linearizable(model, events)

\* true was returned for three calls committed in an order that is not the
\* order of their invokes
SoundnessWitness ==
    /\ pc = "done"
    /\ result = "true"
    /\ Len(calls) = 3
    /\ \E i \in 1..2 : calls[i][1] > calls[i + 1][1]

\* C2 (completeness): whenever check_linearizability has returned false, no
\* total order of the calls respects the real-time order and reproduces the
\* recorded return values; a branch the seen-set pruned led nowhere.
Completeness ==
    (pc = "done" /\ result = "false") => ~Linearizable(model, events)

\* false was returned after a search that committed and backtracked: the
\* cache holds frontiers of two different sets of calls
CompletenessWitness ==
    /\ pc = "done"
    /\ result = "false"
    /\ \E k1, k2 \in cache : k1[1] # k2[1] /\ k1[2] # k2[2]

\* C3 (termination): on every well-formed history the loop eventually
\* returns, true or false.
Termination == <>(pc = "done")

\* the loop returned after at least one backtrack (a frontier is cached that
\* is no longer on the stack)
TerminationWitness ==
    /\ pc = "done"
    /\ result \in {"true", "false"}
    /\ Cardinality(cache) > Len(calls) + 1

\* no two calls overlap: every Invoke is directly followed by its own Return
Sequential(evs) == \A e \in InvokeEids(evs) : evs[e].ev.ret_event = e + 1

\* the calls of a sequential history in history order: eids 2, 4, 6, ...
HistoryOrder(evs) == [k \in 1..Cardinality(InvokeEids(evs)) |-> 2 * k]

\* C12 (single-thread histories): on a history in which no two calls
\* overlap, check_linearizability returns true if and only if replaying the
\* operations in history order on the model from M::initial() yields exactly
\* the recorded return values.
SequentialIffReplay ==
    (pc = "done" /\ Sequential(events)) =>
        (result = "true" <=>
            Replays(model, events, HistoryOrder(events), 1, Model_initial(model)))

\* true was returned for the single-thread counter history Incr, Read, Incr
\* whose Read recorded Some(1)
SequentialWitness ==
    /\ pc = "done"
    /\ result = "true"
    /\ model = "counter"
    /\ Sequential(events)
    /\ HistLen(events) = 8
    /\ events[2].ev.op = Incr
    /\ events[4].ev.op = Read /\ events[5].ev.val = Some(1)
    /\ events[6].ev.op = Incr

\* the second run has got as far as the first k steps of the first
IsPrefix(a, b) == Len(a) <= Len(b) /\ SubSeq(b, 1, Len(a)) = a

OnStack(e) == Cardinality({k \in DOMAIN calls : calls[k][1] = e})

\* C15 (search-state consistency): at every iteration of the loop, for every
\* call i, bit i of lined is set iff the call's invoke eid is on the calls
\* stack, where it stands once, iff both its Invoke node and its Return node
\* are off the live list.
SearchStateConsistent ==
    (pc = "loop" \/ (pc = "done" /\ result # "panic")) =>
        /\ \A k \in DOMAIN calls : IsInvoke(events, calls[k][1])
        /\ LET live == LiveSet(events)
           IN  \A e \in InvokeEids(events) :
                   LET bit == BitVec_get(lined, events[e].ev.call_id)
                       off == /\ e \notin live
                              /\ events[e].ev.ret_event \notin live
                   IN  /\ OnStack(e) <= 1
                       /\ bit <=> OnStack(e) = 1
                       /\ bit <=> off

\* calls 0 and 2 are committed and lifted while call 1, withdrawn by a
\* backtrack, is back on the live list with its bit cleared
SearchStateWitness ==
    /\ pc = "loop"
    /\ Len(calls) = 2
    /\ lined.inner = <<{0, 2}>>
    /\ \E k \in DOMAIN trace : trace[k][1] = "backtrack"
    /\ \E e \in LiveSet(events) : IsInvoke(events, e) /\ events[e].ev.call_id = 1

\* the positions of the commits in the trace
Commits == {k \in DOMAIN trace : trace[k][1] = "commit"}

\* C16 (cache consulted before committing): a commit is taken only when the
\* pair (lined with the call's bit set, s') was not in the cache before the
\* step, and the step records it; so no pair is committed twice and there
\* are never more commits than cache entries.
CommitOnlyUnseen ==
    /\ [][Len(calls') > Len(calls) =>
             /\ <<lined', s'>> \notin cache
             /\ <<lined', s'>> \in cache'
             /\ trace' = Append(trace, Commit(eid, <<lined', s'>>))]_vars
    /\ [](/\ \A j, k \in Commits : j # k => trace[j][3] # trace[k][3]
          /\ Cardinality(Commits) <= Cardinality(cache))

\* after three commits the search stands at an Invoke that is consistent
\* with the model but whose pair is in the cache: it will not be committed
CommitWitness ==
    /\ pc = "loop"
    /\ Cardinality(Commits) >= 3
    /\ IsInvoke(events, eid)
    /\ ~IterationPanics
    /\ LET a == Checker_apply(model, events, s, eid)
       IN  a[1] /\ <<BitVec_set(lined, a[2], TRUE), a[3]>> \in cache

\* call a returned before call b was invoked
Precedes(evs, a, b) == evs[a].ev.ret_event < b

\* the history holds a Set(0, 1) that returned before a Get(0) that recorded
\* None was invoked, and no call that removes key 0
ImpossibleRead(evs) ==
    /\ \E a, b \in InvokeEids(evs) :
           /\ evs[a].ev.op = Set(0, 1)
           /\ evs[b].ev.op = Get(0)
           /\ evs[evs[b].ev.ret_event].ev.val = None
           /\ Precedes(evs, a, b)
    /\ \A c \in InvokeEids(evs) : evs[c].ev.op # Rm(0)

\* C17 (real-time order): whenever call A returned before call B was
\* invoked, the search never has B committed while A is not; the current eid
\* never stands past a live Return; so a history in which Set(0, 1)
\* completes before a Get(0) begins that records None (nothing else removing
\* the key) is reported not linearizable.
RealTimeEnforced ==
    /\ (pc = "loop" \/ (pc = "done" /\ result # "panic")) =>
           \A a, b \in InvokeEids(events) :
               (Precedes(events, a, b) /\ OnStack(b) = 1) => OnStack(a) = 1
    /\ pc = "loop" =>
           \A r \in LiveSet(events) : IsRet(events, r) => eid <= r
    /\ (pc = "done" /\ model = "flurry" /\ ImpossibleRead(hist0)) =>
           result = "false"

\* false was returned for Set(0, 1) followed, after its Return, by a Get(0)
\* that recorded None, with a third call overlapping both
RealTimeWitness ==
    /\ pc = "done"
    /\ result = "false"
    /\ model = "flurry"
    /\ ImpossibleRead(hist0)
    /\ HistLen(hist0) = 8
    /\ \E c \in InvokeEids(hist0) : hist0[c].ev.ret_event = 7 /\ c = 2

\* C18 (no panic): on a well-formed history check_linearizability never
\* panics: the current eid is never a sentinel; next_eid(eid).unwrap() on an
\* Invoke, and on the invoke just unlifted by a backtrack, finds a live
\* successor; get_call_id, lift and unlift are only called with the eid of
\* an Invoke; every index lined.set is called with is within the bitmap.
NeverPanics ==
    /\ result # "panic"
    /\ pc = "loop" =>
           /\ IsEid(events, eid) /\ events[eid].ev.kind # "None"
           /\ IsInvoke(events, eid) =>
                  /\ Hist_next_eid(events, eid) # None
                  /\ events[eid].ev.call_id \in 0..(Hist_len(events) \div 2 - 1)
                  /\ ~BitVec_set_panics(lined, events[eid].ev.call_id)
                  /\ IsRet(events, events[eid].ev.ret_event)
           /\ (IsRet(events, eid) /\ calls # <<>>) =>
                  LET eid2 == calls[Len(calls)][1]
                  IN  /\ IsInvoke(events, eid2)
                      /\ ~BitVec_set_panics(lined, Hist_get_call_id(events, eid2))
                      /\ Hist_next_eid(Hist_unlift(events, eid2), eid2) # None
           /\ ~IterationPanics

\* a run over three calls returned after at least four commits and two
\* backtracks, each of which unwrapped a next_eid
NeverPanicsWitness ==
    /\ pc = "done"
    /\ result \in {"true", "false"}
    /\ HistLen(events) = 8
    /\ Cardinality(Commits) >= 4
    /\ Cardinality(DOMAIN trace \ Commits) >= 2

\* C20 (nesting of lifts): during one check_linearizability run every
\* unlift is applied to the most recently lifted call not yet unlifted, and
\* gives back the History that call was lifted from; between the lift of a
\* call and its unlift the prev/next fields of its Invoke and Return nodes
\* stay what they were when the nodes were taken out: the neighbours each
\* node then had.
LiftsNested ==
    /\ [][/\ Len(lifted') > Len(lifted) =>
                /\ lifted' = Append(lifted, eid)
                /\ eid \in LiveSet(events)
          /\ Len(lifted') < Len(lifted) =>
                /\ lifted' = SubSeq(lifted, 1, Len(lifted) - 1)
                /\ events' = snaps[Len(snaps)]]_vars
    /\ [](\A k \in DOMAIN lifted :
             LET e    == lifted[k]
                 r    == events[e].ev.ret_event
                 was  == snaps[k]
                 was2 == Hist_lift_event(was, e)
             IN  /\ events[e].prev = was[e].prev
                 /\ events[e].next = was[e].next
                 /\ events[r].prev = was2[r].prev
                 /\ events[r].next = was2[r].next)

\* after a backtrack two calls are lifted, the later invoked one first, and
\* a third call is still on the live list between the neighbours they name
LiftsNestedWitness ==
    /\ pc = "loop"
    /\ Len(lifted) = 2
    /\ lifted[1] > lifted[2]
    /\ HistLen(events) = 8
    /\ \E k \in DOMAIN trace : trace[k][1] = "backtrack"

\* three calls A, B, C invoked in this order before any of them returned
\* (eids 2, 3, 4); the order A, C, B replays on the model, A, B, C does not
BacktrackingExercise(M, evs) ==
    /\ HistLen(evs) = 8
    /\ InvokeEids(evs) = {2, 3, 4}
    /\ Replays(M, evs, <<2, 4, 3>>, 1, Model_initial(M))
    /\ ~Replays(M, evs, <<2, 3, 4>>, 1, Model_initial(M))

Backtracks == DOMAIN trace \ Commits

\* C21 as stated: on such a history check_linearizability returns true and
\* pops the calls stack at least once before it returns.
ExerciseBacktracks ==
    (pc = "done" /\ BacktrackingExercise(model, hist0)) =>
        (result = "true" /\ Backtracks # {})

\* C21 (backtracking exercise): on such a history check_linearizability
\* returns true; it pops the calls stack before returning exactly when B's
\* recorded value is the one the model gives right after A. When it is not,
\* B is passed over by advancing and C is committed with no backtrack.
ExerciseBacktracksIfBFits ==
    (pc = "done" /\ BacktrackingExercise(model, hist0)) =>
        /\ result = "true"
        /\ Backtracks # {} <=>
               Replays(model, hist0, <<2, 3>>, 1, Model_initial(model))

\* true was returned for such a history after A and B were committed, B
\* was withdrawn, and C and then B were committed
ExerciseWitness ==
    /\ pc = "done"
    /\ result = "true"
    /\ BacktrackingExercise(model, hist0)
    /\ Cardinality(Backtracks) = 1
    /\ [k \in DOMAIN trace |-> trace[k][2]] = <<2, 3, 3, 4, 3>>

\* the state the search holds after the first k calls of the stack
StateAfter(k) == IF k < Len(calls) THEN calls[k + 1][2] ELSE s

\* the calls of the stack, bottom first
StackOrder == [k \in DOMAIN calls |-> calls[k][1]]

\* C22 (witness invariant): at every iteration of the loop the stack of
\* committed calls replays on the model: the state saved with the bottom
\* call is M::initial(), applying each call's operation to the state saved
\* with it returns the call's recorded value and gives the state saved with
\* the next call, and for the top call gives s. When true is returned the
\* stack holds every call of the history once, so the stack order is a
\* linearization.
StackReplays ==
    /\ (pc = "loop" \/ (pc = "done" /\ result # "panic")) =>
           /\ StateAfter(0) = Model_initial(model)
           /\ \A k \in DOMAIN calls :
                  LET e == calls[k][1]
                      r == Model_apply(model, calls[k][2], events[e].ev.op)
                  IN  /\ IsInvoke(events, e)
                      /\ r[2] = events[events[e].ev.ret_event].ev.val
                      /\ r[1] = StateAfter(k)
    /\ (pc = "done" /\ result = "true") =>
           /\ Len(calls) = Hist_len(hist0) \div 2
           /\ StackOrder \in Orders(hist0)
           /\ IsLinearization(model, hist0, StackOrder)

\* after a backtrack the stack holds Set(0, 1) and, above it, Rm(0): the
\* states saved with them are the empty map and the map with the entry, and
\* s is the empty map again
StackReplaysWitness ==
    /\ pc = "loop"
    /\ model = "flurry"
    /\ Backtracks # {}
    /\ Len(calls) = 2
    /\ events[calls[1][1]].ev.op = Set(0, 1) /\ calls[1][2] = {}
    /\ events[calls[2][1]].ev.op = Rm(0) /\ calls[2][2] = {<<0, 1>>}
    /\ s = {}

\* C23 (frame effect): when false is returned every commit has been undone:
\* the stack of calls is empty, lined is the all-false bitmap it started as
\* (blocks and hash), and every node of the History has the prev, next and
\* ev it had before the call. When true is returned the live list is empty
\* and the bit of each of the C calls is set in lined.
FrameEffect ==
    /\ (pc = "done" /\ result = "false") =>
           /\ calls = <<>>
           /\ lined = Checker_new_lined(hist0)
           /\ \A c \in 0 .. (Hist_len(hist0) \div 2) - 1 : ~BitVec_get(lined, c)
           /\ events = hist0
    /\ (pc = "done" /\ result = "true") =>
           /\ Hist_first_eid(events) = None
           /\ LiveSet(events) = {}
           /\ \A c \in 0 .. (Hist_len(hist0) \div 2) - 1 : BitVec_get(lined, c)

\* false is returned for a history of three calls after two calls were
\* committed together and each commit was taken back
FrameEffectWitness ==
    /\ pc = "done" /\ result = "false"
    /\ Hist_len(hist0) = 6
    /\ Cardinality(Commits) >= 2
    /\ Cardinality(Backtracks) = Cardinality(Commits)
    /\ \E k \in Commits : k + 1 \in Commits

\* the Linbits the search has built so far: the keys of the seen-set and lined
LinbitsBuilt == {k[1] : k \in cache} \cup {lined}

\* C11 (path independence): two Linbits the search built by different
\* sequences of set calls (bits set in another order, bits set and cleared
\* again by a backtrack) that hold the same blocks are equal, hash included,
\* so they are one key of the seen-set.
SameBlocksSameKey ==
    \A v1, v2 \in LinbitsBuilt : v1.inner = v2.inner => v1 = v2

\* call 1 alone is committed (bit 0 was set and cleared again); call 0 is
\* consistent next, and the Linbits with bits 1 then 0 set is the key that
\* was cached when the bits were set in the order 0, 1: the search went past
\* call 0 as seen
SameBlocksWitness ==
    /\ pc = "loop"
    /\ Len(calls) = 1
    /\ IsInvoke(events, calls[1][1]) /\ events[calls[1][1]].ev.call_id = 1
    /\ \E e0 \in LiveSet(events) :
           /\ IsInvoke(events, e0) /\ events[e0].ev.call_id = 0
           /\ e0 < eid
           /\ LET a == Checker_apply(model, events, s, e0)
              IN  a[1] /\ <<BitVec_set(lined, a[2], TRUE), a[3]>> \in cache

---------------------------------------------------------------------------
(* SpecBitVec: from_elem, then any sequence of set                         *)

IdleHist == events = Hist_with_capacity /\ lifted = <<>> /\ snaps = <<>>
IdleChk ==
    /\ lined = BitVec_from_elem(FALSE, 0)
    /\ calls = <<>>
    /\ cache = {}
    /\ eid = INVALID
    /\ s = 0
    /\ result = "none"

\* the bit indices set is called with: the first two and the last of a block
ProbeBits == {0, 1, BlockBits - 1}

InitBitVec ==
    /\ \E val \in BOOLEAN : \E len \in 0..(MaxBlocks * BlockBits) :
           bv = BitVec_from_elem(val, len)
    /\ pc = "bitvec"
    /\ model = "counter"
    /\ IdleHist
    /\ IdleChk
    /\ IdleRun
    /\ IdleObs

BitVecSet ==
    /\ pc = "bitvec"
    /\ \E i \in 0..(Len(bv.inner) * BlockBits - 1) : \E val \in BOOLEAN :
           /\ i % BlockBits \in ProbeBits
           /\ ~BitVec_set_panics(bv, i)
           /\ bv' = BitVec_set(bv, i, val)
    /\ UNCHANGED <<events, lifted, snaps, lined, calls, cache, eid, s, pc, result, model>>
    /\ UNCHANGED runVars
    /\ UNCHANGED obsVars

NextBitVec == BitVecSet

SpecBitVec == InitBitVec /\ [][NextBitVec]_vars

\* C10 (hash invariant): after from_elem(val, len) and any sequence of set
\* calls, the hash field is the XOR of all blocks of the vector.
HashIsXorOfBlocks == pc = "bitvec" => bv.hash = XorAll(bv.inner)

\* two all-ones blocks (hash 0 by from_elem) of which set cleared bit 0 of the
\* first: the hash is now that one bit
HashWitness ==
    /\ pc = "bitvec"
    /\ Len(bv.inner) = 2
    /\ bv.inner[1] = U64Max \ {0}
    /\ bv.inner[2] = U64Max
    /\ bv.hash = {0}

---------------------------------------------------------------------------
(* SpecHist: push_back calls (with the back-patching of ret_event that     *)
(* pairs every Invoke with a later Return), then lift and unlift, nested   *)

OpenInvokes(evs) == {e \in InvokeEids(evs) : evs[e].ev.ret_event = INVALID}

InitHist ==
    /\ events = Hist_with_capacity
    /\ lifted = <<>>
    /\ snaps = <<>>
    /\ pc = "build"
    /\ model = "counter"
    /\ IdleBv
    /\ IdleChk
    /\ IdleRun
    /\ IdleObs

HistPushInvoke ==
    /\ pc = "build"
    /\ Cardinality(InvokeEids(events)) < MaxCalls
    /\ \E op \in {Incr, Read} :
           events' = Hist_push_back(events,
                         Invoke(op, INVALID, Cardinality(InvokeEids(events))))
    /\ UNCHANGED <<bv, lifted, snaps, lined, calls, cache, eid, s, pc, result, model>>
    /\ UNCHANGED runVars
    /\ UNCHANGED obsVars

HistPushRet ==
    /\ pc = "build"
    /\ \E inv \in OpenInvokes(events) :
           events' = Hist_set_ret_event(Hist_push_back(events, Ret(None)),
                                        inv, HistLen(events))
    /\ UNCHANGED <<bv, lifted, snaps, lined, calls, cache, eid, s, pc, result, model>>
    /\ UNCHANGED runVars
    /\ UNCHANGED obsVars

HistLift ==
    /\ pc \in {"build", "lift"}
    /\ OpenInvokes(events) = {}
    /\ \E e \in LiveSet(events) :
           /\ IsInvoke(events, e)
           /\ events' = Hist_lift(events, e)
           /\ lifted' = Append(lifted, e)
           /\ snaps' = Append(snaps, events)
    /\ pc' = "lift"
    /\ UNCHANGED <<bv, lined, calls, cache, eid, s, result, model>>
    /\ UNCHANGED runVars
    /\ UNCHANGED obsVars

HistUnlift ==
    /\ pc = "lift"
    /\ lifted # <<>>
    /\ events' = Hist_unlift(events, lifted[Len(lifted)])
    /\ lifted' = SubSeq(lifted, 1, Len(lifted) - 1)
    /\ snaps' = SubSeq(snaps, 1, Len(snaps) - 1)
    /\ UNCHANGED <<bv, lined, calls, cache, eid, s, pc, result, model>>
    /\ UNCHANGED runVars
    /\ UNCHANGED obsVars

NextHist ==
    \/ HistPushInvoke
    \/ HistPushRet
    \/ HistLift
    \/ HistUnlift

SpecHist == InitHist /\ [][NextHist]_vars

\* C6 (doubly-linked invariant): after any push_back calls and any nested
\* lift/unlift calls, every node n on the live list has
\* events[n.prev].next = n and events[n.next].prev = n.
DoublyLinked ==
    \A n \in LiveSet(events) :
        /\ events[events[n].prev].next = n
        /\ events[events[n].next].prev = n

\* two calls are lifted out and events of a third are still live
DoublyLinkedWitness ==
    /\ pc = "lift"
    /\ Len(lifted) = 2
    /\ LiveSet(events) # {}

\* C7 (lift/unlift are inverse): every unlift of the most recently lifted
\* call gives back, node for node, the History that lift was applied to; so
\* when all lifts are undone the History is the one before the first lift.
LiftUnliftInverse ==
    [][(Len(lifted') < Len(lifted)) => events' = snaps[Len(snaps)]]_vars

\* C19 (order inside lift and unlift): lift(e) unlinks the Return node of
\* the call first and its Invoke node second; unlift(e) reinserts the Invoke
\* node first and the Return node second.
LiftReturnFirst ==
    [][/\ Len(lifted') > Len(lifted) =>
            LET e == lifted'[Len(lifted')]
                r == events[e].ev.ret_event
            IN  events' = Hist_lift_event(Hist_lift_event(events, r), e)
       /\ Len(lifted') < Len(lifted) =>
            LET e == lifted[Len(lifted)]
                r == events[e].ev.ret_event
            IN  events' = Hist_unlift_event(Hist_unlift_event(events, e), r)]_vars

\* every lift is undone again, among them the lift of a call whose Return
\* directly follows its Invoke and the lift of a call that encloses another
LiftUnliftWitness ==
    /\ pc = "lift"
    /\ lifted = <<>>
    /\ \E e \in InvokeEids(events) : events[e].ev.ret_event = e + 1
    /\ \E e \in InvokeEids(events) : events[e].ev.ret_event > e + 2


---------------------------------------------------------------------------
(* Systems under test *)

\* CounterSystem::apply (src/src/bin/test_counter.rs): Incr is a load, then
\* a store of old + 1; Read is one load
CounterSystem_load(inner) == inner
CounterSystem_store(old)  == old + 1

\* FlurrySystem::apply (src/src/bin/test_flurry.rs): one call of the
\* concurrent map per op, which takes effect at once; (inner', value)
FlurrySystem_apply(inner, op) ==
    CASE op[1] = "Get" -> <<inner, Map_get(inner, op[2])>>
      [] op[1] = "Set" -> <<Map_insert(inner, op[2], op[3]), None>>
      [] op[1] = "Rm"  -> <<Map_remove(inner, op[2]), None>>

System_initial(M) == IF M = "counter" THEN 0 ELSE {}

\* what OpDist::sample draws from (keys and values cut down to one each)
SampleOps(M) ==
    IF M = "counter" THEN {Incr, Read} ELSE {Set(0, 1), Get(0), Rm(0)}

---------------------------------------------------------------------------
(* Runner (src/src/runner.rs) *)

Tids == 0..(thread_count - 1)

\* mutant: room for one event per call
QueueCapacity_PerCall(tc, ept) == tc * ept
\* Runner::new: the capacity of the ArrayQueue
QueueCapacity(tc, ept) == tc * ept * 2

RunnerInvoke(op, tid) == [kind |-> "Invoke", op |-> op, tid |-> tid]
RunnerRet(val, tid)   == [kind |-> "Ret", val |-> val, tid |-> tid]

\* ArrayQueue::push returns Err: the unwrap() panics
Queue_push_fails == Len(queue) >= QueueCapacity(thread_count, events_per_thread)

WorkerPanic ==
    /\ pc' = "done"
    /\ result' = "panic"

InitRunner ==
    /\ model \in Models
    /\ thread_count \in 1..MaxThreads
    /\ events_per_thread \in 1..MaxRunCalls
    /\ thread_count * events_per_thread <= MaxRunCalls
    /\ start = FALSE
    /\ queue = <<>>
    /\ sys = System_initial(model)
    /\ tpc = [t \in Tids |-> "spin"]
    /\ tleft = [t \in Tids |-> events_per_thread]
    /\ top = [t \in Tids |-> <<>>]
    /\ told = [t \in Tids |-> 0]
    /\ tres = [t \in Tids |-> None]
    /\ pending = <<>>
    /\ drained = 0
    /\ pc = "run"
    /\ IdleBv
    /\ IdleHist
    /\ IdleChk
    /\ IdleObs

\* runner.rs 84: start.store(true)
MainStart ==
    /\ pc = "run"
    /\ ~start
    /\ start' = TRUE
    /\ UNCHANGED <<bv, events, lifted, snaps, lined, calls, cache, eid, s, pc, result,
                   model, thread_count, events_per_thread, queue, sys,
                   tpc, tleft, top, told, tres, pending, drained>>
    /\ UNCHANGED obsVars

\* runner.rs 68: the spin ends once start is read as true
WorkerLeaveSpin(t) ==
    /\ pc = "run"
    /\ tpc[t] = "spin"
    /\ start
    /\ tpc' = [tpc EXCEPT ![t] = IF tleft[t] = 0 THEN "done" ELSE "invoke"]
    /\ UNCHANGED <<bv, events, lifted, snaps, lined, calls, cache, eid, s, pc, result,
                   model, thread_count, events_per_thread, start, queue, sys,
                   tleft, top, told, tres, pending, drained>>
    /\ UNCHANGED obsVars

\* runner.rs 71-77: sample op, push Invoke
WorkerInvoke(t) ==
    /\ pc = "run"
    /\ tpc[t] = "invoke"
    /\ IF Queue_push_fails
       THEN /\ WorkerPanic
            /\ UNCHANGED <<queue, top, tpc>>
       ELSE /\ \E op \in SampleOps(model) :
                   /\ queue' = Append(queue, RunnerInvoke(op, t))
                   /\ top' = [top EXCEPT ![t] = op]
            /\ tpc' = [tpc EXCEPT ![t] = "apply"]
            /\ UNCHANGED <<pc, result>>
    /\ UNCHANGED <<bv, events, lifted, snaps, lined, calls, cache, eid, s,
                   model, thread_count, events_per_thread, start, sys,
                   tleft, told, tres, pending, drained>>
    /\ UNCHANGED obsVars

\* runner.rs 78: system.apply(op), up to its first access of the shared state
WorkerApply(t) ==
    /\ pc = "run"
    /\ tpc[t] = "apply"
    /\ IF model = "counter"
       THEN IF top[t] = Incr
            THEN /\ told' = [told EXCEPT ![t] = CounterSystem_load(sys)]
                 /\ tpc' = [tpc EXCEPT ![t] = "store"]
                 /\ UNCHANGED <<sys, tres>>
            ELSE /\ tres' = [tres EXCEPT ![t] = Some(CounterSystem_load(sys))]
                 /\ tpc' = [tpc EXCEPT ![t] = "ret"]
                 /\ UNCHANGED <<sys, told>>
       ELSE /\ sys' = FlurrySystem_apply(sys, top[t])[1]
            /\ tres' = [tres EXCEPT ![t] = FlurrySystem_apply(sys, top[t])[2]]
            /\ tpc' = [tpc EXCEPT ![t] = "ret"]
            /\ UNCHANGED told
    /\ UNCHANGED <<bv, events, lifted, snaps, lined, calls, cache, eid, s, pc, result,
                   model, thread_count, events_per_thread, start, queue,
                   tleft, top, pending, drained>>
    /\ UNCHANGED obsVars

\* test_counter.rs 82: the store that ends Incr
WorkerStore(t) ==
    /\ pc = "run"
    /\ tpc[t] = "store"
    /\ sys' = CounterSystem_store(told[t])
    /\ tres' = [tres EXCEPT ![t] = None]
    /\ tpc' = [tpc EXCEPT ![t] = "ret"]
    /\ UNCHANGED <<bv, events, lifted, snaps, lined, calls, cache, eid, s, pc, result,
                   model, thread_count, events_per_thread, start, queue,
                   tleft, top, told, pending, drained>>
    /\ UNCHANGED obsVars

\* runner.rs 79: push Ret; then the next iteration, if any
WorkerRet(t) ==
    /\ pc = "run"
    /\ tpc[t] = "ret"
    /\ IF Queue_push_fails
       THEN /\ WorkerPanic
            /\ UNCHANGED <<queue, tleft, tpc>>
       ELSE /\ queue' = Append(queue, RunnerRet(tres[t], t))
            /\ tleft' = [tleft EXCEPT ![t] = tleft[t] - 1]
            /\ tpc' = [tpc EXCEPT ![t] = IF tleft[t] = 1 THEN "done" ELSE "invoke"]
            /\ UNCHANGED <<pc, result>>
    /\ UNCHANGED <<bv, events, lifted, snaps, lined, calls, cache, eid, s,
                   model, thread_count, events_per_thread, start, sys,
                   top, told, tres, pending, drained>>
    /\ UNCHANGED obsVars

\* the scope of run() ends when every worker has; produce_history 93-99
ProduceHistoryBegin ==
    /\ pc = "run"
    /\ \A t \in Tids : tpc[t] = "done"
    /\ events' = Hist_with_capacity
    /\ pending' = [t \in Tids |-> INVALID]
    /\ drained' = 0
    /\ pc' = "drain"
    /\ UNCHANGED <<bv, lifted, snaps, lined, calls, cache, eid, s, result,
                   model, thread_count, events_per_thread, start, queue, sys,
                   tpc, tleft, top, told, tres>>
    /\ UNCHANGED obsVars

\* get_mut_from_eid(inv) on a slot that holds INVALID: "invalid eid"
Drain_panics(evs, pend, event) ==
    event.kind = "Ret" /\ ~IsInvoke(evs, pend[event.tid])

\* mutant: the slot is not cleared when the Ret is drained
Drain_event_KeepsSlot(evs, pend, event) ==
    IF event.kind = "Invoke"
    THEN [events  |-> Hist_push_back(evs, Invoke(event.op, INVALID, NoCallId)),
          pending |-> [pend EXCEPT ![event.tid] = HistLen(evs)]]
    ELSE [events  |-> Hist_set_ret_event(Hist_push_back(evs, Ret(event.val)),
                                         pend[event.tid], HistLen(evs)),
          pending |-> pend]

\* mutant: the Invoke is back-patched with its own eid
Drain_event_SelfRet(evs, pend, event) ==
    IF event.kind = "Invoke"
    THEN [events  |-> Hist_push_back(evs, Invoke(event.op, INVALID, NoCallId)),
          pending |-> [pend EXCEPT ![event.tid] = HistLen(evs)]]
    ELSE [events  |-> Hist_set_ret_event(Hist_push_back(evs, Ret(event.val)),
                                         pend[event.tid], pend[event.tid]),
          pending |-> [pend EXCEPT ![event.tid] = INVALID]]

\* the body of the drain loop (runner.rs 102-122): the Hist and the slots
\* afterwards. The Invoke literal names op and ret_event and no call_id.
Drain_event(evs, pend, event) ==
    IF event.kind = "Invoke"
    THEN [events  |-> Hist_push_back(evs, Invoke(event.op, INVALID, NoCallId)),
          pending |-> [pend EXCEPT ![event.tid] = HistLen(evs)]]
    ELSE [events  |-> Hist_set_ret_event(Hist_push_back(evs, Ret(event.val)),
                                         pend[event.tid], HistLen(evs)),
          pending |-> [pend EXCEPT ![event.tid] = INVALID]]

\* runner.rs 101-123: one event is drained
Drain ==
    /\ pc = "drain"
    /\ drained < Len(queue)
    /\ LET event == queue[drained + 1]
       IN  IF Drain_panics(events, pending, event)
           THEN /\ pc' = "done"
                /\ result' = "panic"
                /\ UNCHANGED <<events, pending, drained>>
           ELSE /\ events' = Drain_event(events, pending, event).events
                /\ pending' = Drain_event(events, pending, event).pending
                /\ drained' = drained + 1
                /\ UNCHANGED <<pc, result>>
    /\ UNCHANGED <<bv, lifted, snaps, lined, calls, cache, eid, s,
                   model, thread_count, events_per_thread, start, queue, sys,
                   tpc, tleft, top, told, tres>>
    /\ UNCHANGED obsVars

\* produce_history returns hist (runner.rs 124); Checker::new(hist)
CheckerNew ==
    /\ pc = "drain"
    /\ drained = Len(queue)
    /\ lined' = Checker_new_lined(events)
    /\ calls' = <<>>
    /\ cache' = {}
    /\ pc' = "check"
    /\ hist0' = events
    /\ UNCHANGED <<bv, events, lifted, snaps, eid, s, result, model, trace, run1>>
    /\ UNCHANGED runVars

NextRunner ==
    \/ MainStart
    \/ \E t \in Tids : WorkerLeaveSpin(t)
    \/ \E t \in Tids : WorkerInvoke(t)
    \/ \E t \in Tids : WorkerApply(t)
    \/ \E t \in Tids : WorkerStore(t)
    \/ \E t \in Tids : WorkerRet(t)
    \/ ProduceHistoryBegin
    \/ Drain
    \/ CheckerNew
    \/ CheckStart
    \/ LoopIteration

SpecRunner == InitRunner /\ [][NextRunner]_vars

---------------------------------------------------------------------------
(* The History produce_history returned: the event with eid e was drained  *)
(* from queue[e - 1], which names the thread that pushed it.               *)

HistoryProduced == pc \in {"check", "loop", "done"} /\ drained = Len(queue) /\ drained > 0

TidOf(e) == queue[e - 1].tid

\* the number of Invokes drained before the one with eid e
InvokesBefore(evs, e) == Cardinality({x \in InvokeEids(evs) : x < e})

\* the histories of the System whose apply takes effect at once are
\* linearizable, whatever the Checker then makes of them
AtomicHistoriesLinearizable ==
    (HistoryProduced /\ model = "flurry") => Linearizable(model, events)

\* C4: for the System whose apply is atomic and agrees with the model,
\* every interleaving of the workers yields a History on which
\* check_linearizability returns true.
AtomicRunsCheckTrue ==
    (HistoryProduced /\ pc = "done" /\ model = "flurry") => result = "true"

\* C5: with the racy counter an interleaving that loses an update, seen by
\* a later Read, yields a History on which check_linearizability returns
\* false.
LostUpdateChecksFalse ==
    (HistoryProduced /\ pc = "done" /\ model = "counter"
        /\ ~Linearizable(model, events)) => result = "false"

\* C8 (stitching): no Invoke is drained for a thread whose slot is occupied
\* and no Ret for a thread whose slot is empty; in the returned History the
\* events are in the order of the queue, every Invoke's ret_event is the eid
\* of a later Ret event, the next event its own thread pushed, and no
\* pending slot is left occupied.
StitchingPairsCalls ==
    /\ (pc = "drain" /\ drained < Len(queue)) =>
           LET event == queue[drained + 1]
           IN  /\ event.kind = "Invoke" => pending[event.tid] = INVALID
               /\ event.kind = "Ret" => pending[event.tid] # INVALID
    /\ (HistoryProduced /\ pc = "check") =>
           Live(events) = [k \in 1..Len(queue) |-> k + 1]
    /\ HistoryProduced =>
           /\ \A e \in InvokeEids(events) :
                  LET r == events[e].ev.ret_event
                  IN  /\ r # INVALID
                      /\ IsRet(events, r)
                      /\ r > e
                      /\ TidOf(r) = TidOf(e)
                      /\ \A x \in (e + 1)..(r - 1) : TidOf(x) # TidOf(e)
           /\ \A t \in Tids : pending[t] = INVALID

\* two workers made two calls each; the first call of one encloses the
\* first call of the other, and their second calls overlap
StitchingWitness ==
    /\ HistoryProduced
    /\ pc = "check"
    /\ InvokeEids(events) = {2, 3, 6, 7}
    /\ events[2].ev.ret_event = 5
    /\ TidOf(6) # TidOf(7)

\* C9: in the History produce_history returns, the Invokes carry the call
\* ids 0, 1, 2, ... in the order they were drained, all below hist.len()/2.
CallIdsCountInvokes ==
    HistoryProduced =>
        \A e \in InvokeEids(events) :
            /\ events[e].ev.call_id = InvokesBefore(events, e)
            /\ events[e].ev.call_id < Hist_len(events) \div 2

\* C14 (queue sizing): no push onto the event queue fails, whatever the
\* interleaving; once all workers have finished the queue holds exactly
\* 2 * thread_count * events_per_thread events, and the History produced
\* from it has an even len(), twice the number of its calls.
QueueHoldsPlannedEvents ==
    /\ pc = "run" =>
           /\ \A t \in Tids : tpc[t] \in {"invoke", "ret"} => ~Queue_push_fails
           /\ (\A t \in Tids : tpc[t] = "done") =>
                  Len(queue) = 2 * thread_count * events_per_thread
    /\ (pc = "done" /\ result = "panic") => drained = Len(queue)
    /\ HistoryProduced =>
           /\ Hist_len(events) = 2 * thread_count * events_per_thread
           /\ Hist_len(events) % 2 = 0
           /\ Hist_len(events) = 2 * Cardinality(InvokeEids(events))

\* two workers have pushed their last Ret: the queue is full, eight events
QueueWitness ==
    /\ pc = "run"
    /\ thread_count = 2
    /\ \A t \in Tids : tpc[t] = "done"
    /\ Len(queue) = 8
    /\ Len(queue) = QueueCapacity(thread_count, events_per_thread)

=============================================================================
